---------------------------- MODULE Spec2Model ----------------------------
(***************************************************************************)
(* Model of the sync-ghes script: the workflow inventory scan              *)
(* (checkWorkflows / checkWorkflow), the orchestration in main(), the      *)
(* artifact-action downgrade and the command runner exec().                *)
(*                                                                         *)
(* Text is modelled as a sequence of tokens.  A token is an indivisible    *)
(* run of characters ("actions", "/", "@", "v4", ...); every string        *)
(* operation of the code (split, slice, join, toLowerCase, includes,       *)
(* replace) is computed on the token sequence the way the code computes it *)
(* on characters.  A file is a sequence of lines, a line is a token        *)
(* sequence whose first token says what the line is.                       *)
(***************************************************************************)
EXTENDS Integers, Sequences, FiniteSets, TLC

VARIABLES
    inventory,     \* directory listings of the working tree at start (source branch)
    tree,          \* working tree: path -> file
    pc,            \* position of main()
    fi,            \* checkWorkflows: index of the folder being scanned
    ei,            \* checkWorkflows: index of the next entry of that folder
    result,        \* WorkflowsCheckResult being built
    exitCode,      \* process.exitCode
    console,       \* lines written by console.log / group / error
    execCalls,     \* argv of every exec() call made, in order
    restorePaths,  \* main(): restorePaths
    di,            \* downgradeArtifactActions: index of the next workflow
    stepsDone,     \* orchestration steps completed, in order
    cp,            \* exec(): the child process and the options of the call
    promise,       \* exec(): state of the returned promise
    execResult,    \* exec(): the ExecResult object
    timer,         \* exec(): the timeout timer
    effects,       \* exec(): kill / resolve / reject calls made, in order
    ri,            \* main(): index of the next read-only folder to restore
    chk,           \* a stand-alone call of checkWorkflow: input and outcome
    ph             \* a stand-alone call of addPlaceholderStep: document and outcome

vars == << inventory, tree, pc, fi, ei, result, exitCode, console, execCalls,
           restorePaths, di, ri, stepsDone, cp, promise, execResult, timer,
           effects, chk, ph >>

scanVars == << fi, ei, result >>
execVars == << cp, promise, execResult, timer, effects >>

-----------------------------------------------------------------------------
(* Bounds *)

MaxLines   == 4    \* lines of a workflow file drawn for a stand-alone check
MaxEntries == 3    \* directory entries of a mixed inventory
MaxChunks  == 1    \* data chunks a child writes to each of stdout / stderr
MaxTextLines == 2  \* step and comment lines of a workflow file drawn for the downgrade

-----------------------------------------------------------------------------
(* Strings *)

\* String.prototype.toLowerCase on one token
LowerTok(t) ==
    CASE t = "Actions"  -> "actions"
      [] t = "Checkout" -> "checkout"
      [] t = "GitHub"   -> "github"
      [] t = "IBM"      -> "ibm"
      [] t = "Ibm"      -> "ibm"
      [] t = "Red"      -> "red"
      [] t = "Hat"      -> "hat"
      [] t = "RED"      -> "red"
      [] t = "HAT"      -> "hat"
      [] t = "Alibaba"  -> "alibaba"
      [] t = "Cloud"    -> "cloud"
      [] t = "Amazon"   -> "amazon"
      [] t = "Web"      -> "web"
      [] t = "Services" -> "services"
      [] t = "Microsoft" -> "microsoft"
      [] t = "Azure"    -> "azure"
      [] t = "Google"   -> "google"
      [] t = "Tencent"  -> "tencent"
      [] t = "HashiCorp" -> "hashicorp"
      [] t = "Octo"     -> "octo"
      [] OTHER          -> t

toLowerCase(s) == [i \in 1..Len(s) |-> LowerTok(s[i])]

\* Position of the first occurrence of token sep in s at or after i, 0 if none
RECURSIVE IndexFrom(_, _, _)
IndexFrom(s, sep, i) ==
    IF i > Len(s) THEN 0
    ELSE IF s[i] = sep THEN i
    ELSE IndexFrom(s, sep, i + 1)

\* String.prototype.split(sep): the pieces between the separators, in order
RECURSIVE split(_, _)
split(s, sep) ==
    LET k == IndexFrom(s, sep, 1) IN
    IF k = 0 THEN << s >>
    ELSE << SubSeq(s, 1, k - 1) >> \o split(SubSeq(s, k + 1, Len(s)), sep)

\* Array.prototype.slice(0, n)
slice0(a, n) == SubSeq(a, 1, IF Len(a) < n THEN Len(a) ELSE n)

\* Array.prototype.join(sep)
RECURSIVE join(_, _)
join(a, sep) ==
    IF Len(a) = 0 THEN << >>
    ELSE IF Len(a) = 1 THEN a[1]
    ELSE a[1] \o << sep >> \o join(Tail(a), sep)

\* s has pat starting at position i
MatchAt(s, pat, i) ==
    /\ i + Len(pat) - 1 <= Len(s)
    /\ \A k \in 1..Len(pat) : s[i + k - 1] = pat[k]

\* String.prototype.includes
includes(s, pat) == \E i \in 1..Len(s) : MatchAt(s, pat, i)

\* String.prototype.replace(/pat/g, rep): every match, left to right, no overlap
RECURSIVE replaceAll(_, _, _)
replaceAll(s, pat, rep) ==
    IF Len(s) = 0 THEN << >>
    ELSE IF MatchAt(s, pat, 1)
         THEN rep \o replaceAll(SubSeq(s, Len(pat) + 1, Len(s)), pat, rep)
         ELSE << s[1] >> \o replaceAll(Tail(s), pat, rep)

\* String.prototype.startsWith
startsWith(s, pat) == MatchAt(s, pat, 1)

\* The elements of a sequence
Range(s) == { s[i] : i \in 1..Len(s) }

-----------------------------------------------------------------------------
(* Paths (module "path") *)

\* path.join: the parts separated by "/"
pathJoin(parts) == join(parts, "/")

\* path.basename(p): the part after the last "/"
basename(p) ==
    LET parts == split(p, "/") IN parts[Len(parts)]

DotTokens == { ".yml", ".yaml", ".json", ".properties", ".svg" }

\* path.extname(name): from the last "." of the name, "" when there is none or
\* when the name starts with it
extname(name) ==
    IF Len(name) > 1 /\ name[Len(name)] \in DotTokens
    THEN << name[Len(name)] >>
    ELSE << >>

\* path.basename(name, ext): the name without the suffix ext
basenameExt(name, ext) ==
    IF Len(name) > Len(ext) /\ SubSeq(name, Len(name) - Len(ext) + 1, Len(name)) = ext
    THEN SubSeq(name, 1, Len(name) - Len(ext))
    ELSE name

\* folder is the path p or one of its ancestors
Under(p, folder) ==
    /\ Len(p) >= Len(folder)
    /\ SubSeq(p, 1, Len(folder)) = folder
    /\ (Len(p) = Len(folder) \/ p[Len(folder) + 1] = "/")

-----------------------------------------------------------------------------
(* settings of main() *)

FolderCi           == << "..", "/", "..", "/", "ci" >>
FolderAutomation   == << "..", "/", "..", "/", "automation" >>
FolderCodeScanning == << "..", "/", "..", "/", "code-scanning" >>
FolderPages        == << "..", "/", "..", "/", "pages" >>
IconsDir           == << "..", "/", "..", "/", "icons" >>

folders == << FolderCi, FolderAutomation, FolderCodeScanning, FolderPages >>

readOnlyFolders == << FolderPages >>

enabledActions ==
    << << "actions", "/", "cache" >>,
       << "actions", "/", "checkout" >>,
       << "actions", "/", "configure-pages" >>,
       << "actions", "/", "create-release" >>,
       << "actions", "/", "delete-package-versions" >>,
       << "actions", "/", "deploy-pages" >>,
       << "actions", "/", "download-artifact" >>,
       << "actions", "/", "jekyll-build-pages" >>,
       << "actions", "/", "setup-dotnet" >>,
       << "actions", "/", "setup-go" >>,
       << "actions", "/", "setup-java" >>,
       << "actions", "/", "setup-node" >>,
       << "actions", "/", "setup-python" >>,
       << "actions", "/", "stale" >>,
       << "actions", "/", "starter-workflows" >>,
       << "actions", "/", "upload-artifact" >>,
       << "actions", "/", "upload-pages-artifact" >>,
       << "actions", "/", "upload-release-asset" >>,
       << "github", "/", "codeql-action" >> >>

partners ==
    << << "Alibaba", " ", "Cloud" >>,
       << "Amazon", " ", "Web", " ", "Services" >>,
       << "Microsoft", " ", "Azure" >>,
       << "Google", " ", "Cloud" >>,
       << "IBM" >>,
       << "Red", " ", "Hat" >>,
       << "Tencent", " ", "Cloud" >>,
       << "HashiCorp" >> >>

-----------------------------------------------------------------------------
(* Workflow files and js-yaml *)

\* The first token of a line says what the line is:
\*   "key:"     a top-level key other than jobs (name:, on:, ...)
\*   "job:"     the header of a job under jobs:
\*   "- run:"   a step without uses
\*   "- uses:"  a step with uses; the rest of the line is the reference
\*   "#"        a comment; the rest of the line is its text
\*   "junk"     text that is not YAML
KeyLine  == << "key:" >>
JobLine  == << "job:" >>
RunLine  == << "- run:" >>
JunkLine == << "junk" >>
UsesLine(ref) == << "- uses:" >> \o ref
CommentLine(txt) == << "#" >> \o txt

IsStepLine(l) == l[1] \in { "- run:", "- uses:" }

StepOf(l) == [ hasUses |-> l[1] = "- uses:", uses |-> Tail(l) ]

\* The jobs of a document: each job line opens a job, the step lines that
\* follow it are its steps
RECURSIVE ParseJobs(_, _)
ParseJobs(lines, acc) ==
    IF Len(lines) = 0 THEN acc
    ELSE LET l == Head(lines) IN
         IF l[1] = "job:"
         THEN ParseJobs(Tail(lines), Append(acc, [ steps |-> << >> ]))
         ELSE IF IsStepLine(l) /\ Len(acc) > 0
         THEN ParseJobs(Tail(lines),
                  [ acc EXCEPT ![Len(acc)].steps = Append(@, StepOf(l)) ])
         ELSE ParseJobs(Tail(lines), acc)

\* safeLoad: throws on text that is not YAML, returns undefined for a document
\* with no content, and the mapping otherwise
safeLoad(text) ==
    LET body == SelectSeq(text, LAMBDA l : l[1] # "#") IN
    IF \E i \in 1..Len(text) : text[i][1] = "junk"
    THEN [ kind |-> "error", hasJobs |-> FALSE, jobs |-> << >> ]
    ELSE IF Len(body) = 0
    THEN [ kind |-> "undefined", hasJobs |-> FALSE, jobs |-> << >> ]
    ELSE [ kind |-> "mapping",
           hasJobs |-> \E i \in 1..Len(body) : body[i][1] = "job:",
           jobs |-> ParseJobs(body, << >>) ]

-----------------------------------------------------------------------------
(* checkWorkflow *)

\* new Set(list.map((x) => x.toLowerCase()))
LowerSet(list) == { toLowerCase(list[i]) : i \in 1..Len(list) }

\* if (step.uses): present and not the empty string
Truthy(step) == step.hasUses /\ Len(step.uses) > 0

\* const [actionName] = String(step.uses).split("@")
ActionName(uses) == split(uses, "@")[1]

\* a plausible slip: the whole reference path is compared, not owner/repo
ActionNwoWholePath(actionName) == actionName

\* actionName.split("/").slice(0, 2).join("/")
ActionNwo(actionName) == join(slice0(split(actionName, "/"), 2), "/")

\* The inner loop: the steps of one job.  visited lists the references looked
\* up, info the diagnostics written
RECURSIVE CheckSteps(_, _)
CheckSteps(steps, enabled) ==
    IF Len(steps) = 0 THEN [ ok |-> TRUE, visited |-> << >>, info |-> << >> ]
    ELSE IF Truthy(Head(steps))
    THEN LET actionName == ActionName(Head(steps).uses)
             actionNwo  == ActionNwo(actionName) IN
         IF toLowerCase(actionNwo) \notin enabled
         THEN [ ok |-> FALSE, visited |-> << actionNwo >>, info |-> << actionName >> ]
         ELSE LET r == CheckSteps(Tail(steps), enabled) IN
              [ r EXCEPT !.visited = << actionNwo >> \o @ ]
    ELSE CheckSteps(Tail(steps), enabled)

\* The outer loop: the jobs, in order; return false leaves both loops
RECURSIVE CheckJobs(_, _)
CheckJobs(jobs, enabled) ==
    IF Len(jobs) = 0 THEN [ ok |-> TRUE, visited |-> << >>, info |-> << >> ]
    ELSE LET r == CheckSteps(Head(jobs).steps, enabled) IN
         IF ~r.ok THEN r
         ELSE LET q == CheckJobs(Tail(jobs), enabled) IN
              [ q EXCEPT !.visited = r.visited \o @ ]

\* a plausible slip: a file that cannot be read or parsed counts as incompatible
checkWorkflowSwallowing(file, allowList) ==
    LET enabled  == LowerSet(allowList)
        workflow == safeLoad(file.text) IN
    IF ~file.present \/ ~file.readable \/ workflow.kind # "mapping"
    THEN [ threw |-> FALSE, ok |-> FALSE, visited |-> << >>, info |-> << >> ]
    ELSE LET r == CheckJobs(workflow.jobs, enabled) IN
         [ threw |-> FALSE, ok |-> r.ok, visited |-> r.visited, info |-> r.info ]

\* checkWorkflow(workflowPath, enabledActions) on the file at workflowPath:
\* threw when readFile or safeLoad throws or the document is undefined
\* (workflow.jobs of undefined), else the boolean returned
checkWorkflow(file, allowList) ==
    LET enabled  == LowerSet(allowList)
        workflow == safeLoad(file.text) IN
    IF ~file.present \/ ~file.readable \/ workflow.kind # "mapping"
    THEN [ threw |-> TRUE, ok |-> FALSE, visited |-> << >>, info |-> << >> ]
    ELSE LET r == CheckJobs(workflow.jobs, enabled) IN
         [ threw |-> FALSE, ok |-> r.ok, visited |-> r.visited, info |-> r.info ]

\* A file of the working tree
File(text) == [ present |-> TRUE, readable |-> TRUE, text |-> text ]
Unreadable == [ present |-> TRUE, readable |-> FALSE, text |-> << >> ]
Absent     == [ present |-> FALSE, readable |-> FALSE, text |-> << >> ]

-----------------------------------------------------------------------------
(* exec(): the command runner *)

\* ExecResult.exitCode before the child closes, and the code of a child ended
\* by a signal: null
NullCode == 256
\* the code a child that could not be spawned closes with (-ENOENT)
SpawnErrCode == -2

\* new ExecResult()
NewExecResult == [ stdout |-> << >>, stderr |-> << >>, exitCode |-> NullCode ]

NoChild ==
    [ state |-> "none", command |-> << >>, allowNonZeroExit |-> FALSE,
      timeoutMs |-> 0, spawnOk |-> TRUE, errorEmitted |-> FALSE,
      killed |-> FALSE, closeCode |-> NullCode ]

\* The positions of main() that wait for the promise of an exec() call
AwaitPcs == { "await_checkout", "await_rm_folders", "await_rm_icons",
              "await_restore_ro", "await_restore" }

\* A settled promise resumes the awaiting caller before any other event runs
ContinuationPending == pc \in AwaitPcs /\ promise # "pending"

\* resolve(value) / reject(err) of a promise: only the first call settles it
resolve(p) == IF p = "pending" THEN "resolved" ELSE p
reject(p)  == IF p = "pending" THEN "rejected" ELSE p

\* if (timeoutMs && timeoutMs > 0): undefined is modelled as 0
TimerArmed(timeoutMs) == timeoutMs # 0 /\ timeoutMs > 0

\* The body of exec(command, args, options) up to the return of the promise:
\* the child is spawned (or not), the handlers are registered, the timer set
execBody(argv, allowNonZeroExit, timeoutMs) ==
    /\ \E ok \in BOOLEAN :
         cp' = [ NoChild EXCEPT !.state = "running", !.command = argv,
                                !.allowNonZeroExit = allowNonZeroExit,
                                !.timeoutMs = timeoutMs, !.spawnOk = ok ]
    /\ promise' = "pending"
    /\ execResult' = NewExecResult
    /\ timer' = IF TimerArmed(timeoutMs) THEN "armed" ELSE "none"
    /\ effects' = << >>
    /\ execCalls' = Append(execCalls, argv)

\* a plausible slip: every close resolves, whatever the exit code
CloseResolvesAlways(code, allowNonZeroExit) == TRUE

\* if (code === 0 || allowNonZeroExit)
CloseResolves(code, allowNonZeroExit) == code = 0 \/ allowNonZeroExit

\* The files of the source branch and of the deployment branch are defined
\* with the inventory below; Effect is what a command that exits 0 has done
\* to the working tree when it closes.

-----------------------------------------------------------------------------
(* The repository on disk *)

\* A directory entry of a workflow folder, with the properties sidecar that
\* belongs to it: sidecar is "missing", "unparsable" or "loaded"
NoProps == [ hasCreator |-> FALSE, creator |-> << >>, enterprise |-> "undefined",
             hasIcon |-> FALSE, iconName |-> << >> ]

YmlExt == << ".yml" >>

\* if (!entry.isFile() || extname(entry.name) !== ".yml") continue
IsCandidate(e) == e.isFile /\ extname(e.name) = YmlExt

\* join(folder, entry.name)
WorkflowPath(folder, name) == pathJoin(<< folder, name >>)
\* join(wf.folder, `${wf.id}.yml`)
YmlPath(folder, id) == pathJoin(<< folder, id \o << ".yml" >> >>)
\* join(folder, "properties", `${id}.properties.json`)
SidecarPath(folder, id) ==
    pathJoin(<< folder, << "properties" >>, id \o << ".properties", ".json" >> >>)
\* join("../../icons", `${wf.iconName}.svg`)
IconPath(iconName) == pathJoin(<< IconsDir, iconName \o << ".svg" >> >>)

\* props.iconName?.startsWith("octicon") ? "octicon" : "svg"
IconType(props) ==
    IF props.hasIcon /\ startsWith(props.iconName, << "octicon" >>)
    THEN "octicon" ELSE "svg"

\* The files the source branch holds for the entries of an inventory: every
\* regular file, the sidecars that exist, the svg icons the sidecars name
SourcePaths(inv) ==
    { WorkflowPath(e.folder, e.name) : e \in { x \in Range(inv) : x.isFile } }
    \cup { SidecarPath(e.folder, basenameExt(e.name, YmlExt)) :
             e \in { x \in Range(inv) : IsCandidate(x) /\ x.sidecar # "missing" } }
    \cup { IconPath(e.props.iconName) :
             e \in { x \in Range(inv) : IsCandidate(x) /\ x.sidecar = "loaded"
                                        /\ x.props.hasIcon
                                        /\ IconType(x.props) = "svg" } }

SourceFile(inv, p) ==
    IF \E e \in Range(inv) : e.isFile /\ WorkflowPath(e.folder, e.name) = p
    THEN (CHOOSE e \in Range(inv) :
              e.isFile /\ WorkflowPath(e.folder, e.name) = p).file
    ELSE IF \E e \in Range(inv) :
              /\ IsCandidate(e) /\ e.sidecar = "unparsable"
              /\ SidecarPath(e.folder, basenameExt(e.name, YmlExt)) = p
    THEN File(<< JunkLine >>)
    ELSE File(<< KeyLine >>)

\* Files that an earlier run left on the deployment branch and that the source
\* branch no longer has: a workflow of a modifiable folder, a workflow of the
\* read-only folder, an icon
DeploymentOnlyPaths ==
    { YmlPath(FolderCi, << "old" >>), YmlPath(FolderPages, << "old" >>),
      IconPath(<< "old" >>) }

Paths(inv) == SourcePaths(inv) \cup DeploymentOnlyPaths

\* The working tree on the source branch (main)
MainTree(inv) ==
    [ p \in Paths(inv) |-> IF p \in SourcePaths(inv) THEN SourceFile(inv, p) ELSE Absent ]

\* The working tree on the deployment branch (ghes): an earlier, stale version
\* of every file, and the files only this branch has
StaleFile == File(<< CommentLine(<< "stale" >>) >>)
GhesTree(inv) == [ p \in Paths(inv) |-> StaleFile ]

Arg(w) == << w >>
GitCheckoutGhes == << Arg("git"), Arg("checkout"), Arg("ghes") >>
GitCheckoutMain(paths) ==
    << Arg("git"), Arg("checkout"), Arg("main"), Arg("--") >> \o paths
RmFr(paths) == << Arg("rm"), Arg("-fr") >> \o paths

\* What a command that exits 0 has done to the working tree t. git checkout
\* <branch> -- <paths> writes the branch's version of every file of the branch
\* under the paths and removes nothing.
Effect(argv, t) ==
    IF argv = GitCheckoutGhes THEN GhesTree(inventory)
    ELSE IF Len(argv) >= 2 /\ SubSeq(argv, 1, 2) = RmFr(<< >>)
    THEN [ p \in DOMAIN t |->
             IF \E k \in 3..Len(argv) : Under(p, argv[k]) THEN Absent ELSE t[p] ]
    ELSE IF Len(argv) >= 4 /\ SubSeq(argv, 1, 4) = GitCheckoutMain(<< >>)
    THEN [ p \in DOMAIN t |->
             IF /\ \E k \in 5..Len(argv) : Under(p, argv[k])
                /\ MainTree(inventory)[p].present
             THEN MainTree(inventory)[p] ELSE t[p] ]
    ELSE t

-----------------------------------------------------------------------------
(* exec(): the events of the child process *)

\* cp.on("error", (err) => reject(err)): the child could not be spawned
ExecError ==
    /\ cp.state = "running" /\ ~cp.spawnOk /\ ~cp.errorEmitted
    /\ ~ContinuationPending
    /\ cp' = [ cp EXCEPT !.errorEmitted = TRUE ]
    /\ promise' = reject(promise)
    /\ effects' = Append(effects, "reject")
    /\ UNCHANGED << inventory, tree, pc, scanVars, exitCode, console, execCalls,
                    restorePaths, di, ri, stepsDone, execResult, timer, chk, ph >>

\* setTimeout(() => { cp.kill("SIGTERM"); reject(...) }, timeoutMs)
ExecTimeout ==
    /\ cp.state = "running" /\ timer = "armed"
    /\ (cp.spawnOk \/ cp.errorEmitted)
    /\ ~ContinuationPending
    /\ timer' = "fired"
    /\ cp' = [ cp EXCEPT !.killed = TRUE ]
    /\ promise' = reject(promise)
    /\ effects' = effects \o << "kill", "reject" >>
    /\ UNCHANGED << inventory, tree, pc, scanVars, exitCode, console, execCalls,
                    restorePaths, di, ri, stepsDone, execResult, chk, ph >>

\* The codes a child can close with: the negative errno when it was never
\* spawned, else an exit status or null (ended by a signal)
CloseCodes(child) ==
    IF child.spawnOk THEN { 0, 1, NullCode } ELSE { SpawnErrCode }

\* cp.on("close", (code) => ...): 'close' follows 'error' when the spawn failed
ExecClose ==
    /\ cp.state = "running" /\ (cp.spawnOk \/ cp.errorEmitted)
    /\ ~ContinuationPending
    /\ \E code \in CloseCodes(cp) :
         /\ cp' = [ cp EXCEPT !.state = "closed", !.closeCode = code ]
         /\ timer' = IF timer = "armed" THEN "cleared" ELSE timer
         /\ execResult' = [ execResult EXCEPT !.exitCode = code ]
         /\ IF CloseResolves(code, cp.allowNonZeroExit)
            THEN /\ promise' = resolve(promise)
                 /\ effects' = Append(effects, "resolve")
            ELSE /\ promise' = reject(promise)
                 /\ effects' = Append(effects, "reject")
         /\ tree' = IF code = 0 THEN Effect(cp.command, tree) ELSE tree
    /\ UNCHANGED << inventory, pc, scanVars, exitCode, console, execCalls,
                    restorePaths, di, ri, stepsDone, chk, ph >>

\* cp.stdout.on("data", ...): the chunk is buffered in execResult.stdout
ExecStdout ==
    /\ cp.state = "running" /\ cp.spawnOk
    /\ ~ContinuationPending
    /\ Len(execResult.stdout) < MaxChunks
    /\ execResult' = [ execResult EXCEPT !.stdout = Append(@, "out") ]
    /\ UNCHANGED << inventory, tree, pc, scanVars, exitCode, console, execCalls,
                    restorePaths, di, ri, stepsDone, cp, promise, timer, effects, chk, ph >>

\* cp.stderr.on("data", ...): the chunk is buffered in execResult.stderr
ExecStderr ==
    /\ cp.state = "running" /\ cp.spawnOk
    /\ ~ContinuationPending
    /\ Len(execResult.stderr) < MaxChunks
    /\ execResult' = [ execResult EXCEPT !.stderr = Append(@, "err") ]
    /\ UNCHANGED << inventory, tree, pc, scanVars, exitCode, console, execCalls,
                    restorePaths, di, ri, stepsDone, cp, promise, timer, effects, chk, ph >>

\* A call of exec() by a caller other than main(): any command, any options
TimeoutValues == { -1, 0, 5 }
ExecCall ==
    /\ pc = "lib" /\ cp.state = "none" /\ ~chk.done
    /\ \E allow \in BOOLEAN, t \in TimeoutValues :
         execBody(<< Arg("cmd") >>, allow, t)
    /\ UNCHANGED << inventory, tree, pc, scanVars, exitCode, console,
                    restorePaths, di, ri, stepsDone, chk, ph >>

\* The program before main() runs: nothing scanned, no child, no output
IdleScan == fi = 1 /\ ei = 1
            /\ result = [ compatibleWorkflows |-> << >>, incompatibleWorkflows |-> << >> ]
IdleExec == cp = NoChild /\ promise = "pending" /\ execResult = NewExecResult
            /\ timer = "none" /\ effects = << >>
IdleMain == exitCode = 0 /\ console = << >> /\ execCalls = << >>
            /\ restorePaths = << >> /\ di = 1 /\ ri = 1 /\ stepsDone = << >>
NoCheck == [ done |-> FALSE, file |-> Absent, allowList |-> << >>,
             out |-> [ threw |-> FALSE, ok |-> FALSE, visited |-> << >>, info |-> << >> ] ]

\* A workflow document as safeLoad builds it, with the objects and arrays it
\* refers to: jobs lists the keys of workflow.jobs in order, each with the
\* job object it refers to (0: null); objs holds the job objects, each with
\* its steps (absent, null, or a reference to an array of lists); two jobs may
\* refer to one object and two objects to one array (a YAML alias).
NoWorkflow == [ title |-> "", jobsKind |-> "absent", jobs |-> << >>,
                objs |-> << >>, lists |-> << >> ]

NoPlaceholderCall == [ done |-> FALSE, workflow |-> NoWorkflow, out |-> NoWorkflow ]

\* The module loaded as a library: its functions are called on their own
InitLib ==
    /\ inventory = << >> /\ tree = MainTree(<< >>) /\ pc = "lib"
    /\ IdleScan /\ IdleExec /\ IdleMain /\ chk = NoCheck
    /\ ph = NoPlaceholderCall

NextExec == ExecCall \/ ExecError \/ ExecTimeout \/ ExecClose \/ ExecStdout \/ ExecStderr

SpecExec == InitLib /\ [][NextExec]_vars

\* C5: exec() rejects, and never resolves, when the child cannot be spawned,
\* when the timer fires before the close (the child is killed first) and when
\* the child closes with a non-zero code that was not allowed; it resolves,
\* with the exit code in the result, exactly when the child closes with code 0
\* or an allowed code and neither a spawn error nor the timeout came first.
C5_ExecSettlement ==
    /\ cp.errorEmitted => promise = "rejected"
    /\ timer = "fired" =>
         /\ promise = "rejected"
         /\ \E i \in 1..(Len(effects) - 1) :
              effects[i] = "kill" /\ effects[i + 1] = "reject"
    /\ (cp.state = "closed" /\ cp.closeCode # 0 /\ ~cp.allowNonZeroExit)
         => promise = "rejected"
    /\ promise = "resolved" <=>
         /\ cp.state = "closed"
         /\ (cp.closeCode = 0 \/ cp.allowNonZeroExit)
         /\ ~cp.errorEmitted
         /\ timer # "fired"
    /\ promise = "resolved" => execResult.exitCode = cp.closeCode

\* C5 witness: the timeout fired, the child then closed with code 0, and the
\* promise stayed rejected
C5_Witness ==
    /\ timer = "fired" /\ cp.state = "closed" /\ cp.closeCode = 0
    /\ promise = "rejected"

-----------------------------------------------------------------------------
(* checkWorkflow called on its own *)

RefCheckout     == << "actions", "/", "checkout", "@", "v3" >>
RefCheckoutCaps == << "Actions", "/", "Checkout", "@", "v3" >>
RefCodeqlInit   == << "github", "/", "codeql-action", "/", "init", "@", "v2" >>
RefEvil         == << "evil", "/", "action", "@", "v4" >>
RefEmpty        == << >>

CheckLines ==
    { KeyLine, JobLine, RunLine, JunkLine,
      UsesLine(RefCheckout), UsesLine(RefCheckoutCaps), UsesLine(RefCodeqlInit),
      UsesLine(RefEvil), UsesLine(RefEmpty) }

CheckTexts == UNION { [ 1..n -> CheckLines ] : n \in 0..MaxLines }

\* The allow-list of main(), and one written in capitals
AllowLists == { enabledActions, << << "Evil", "/", "Action" >> >> }

CheckCall ==
    /\ pc = "lib" /\ cp.state = "none" /\ ~chk.done
    /\ \E text \in CheckTexts, allowList \in AllowLists :
         chk' = [ done |-> TRUE, file |-> File(text), allowList |-> allowList,
                  out |-> checkWorkflow(File(text), allowList) ]
    /\ UNCHANGED << inventory, tree, pc, scanVars, exitCode, console, execCalls,
                    restorePaths, di, ri, stepsDone, execVars, ph >>

SpecCheck == InitLib /\ [][CheckCall]_vars

\* The claim's own reading of a reference: the text before the first "@" ...
BeforeFirstAt(u) ==
    LET n == CHOOSE n \in 0..Len(u) :
                 /\ \A k \in 1..n : u[k] # "@"
                 /\ (n = Len(u) \/ u[n + 1] = "@")
    IN SubSeq(u, 1, n)

Slashes(p, m) == Cardinality({ k \in 1..m : p[k] = "/" })

\* ... cut to its first two "/"-separated segments ...
FirstTwoSegments(p) ==
    LET m == CHOOSE m \in 0..Len(p) :
                 /\ Slashes(p, m) <= 1
                 /\ \/ m = Len(p)
                    \/ (p[m + 1] = "/" /\ Slashes(p, m) = 1)
    IN SubSeq(p, 1, m)

\* ... and lower-cased
RefKey(u) == toLowerCase(FirstTwoSegments(BeforeFirstAt(u)))

\* The non-empty uses references of a document, in document order
RECURSIVE StepRefs(_)
StepRefs(steps) ==
    IF Len(steps) = 0 THEN << >>
    ELSE (IF Head(steps).hasUses /\ Head(steps).uses # << >>
          THEN << Head(steps).uses >> ELSE << >>) \o StepRefs(Tail(steps))
RECURSIVE JobRefs(_)
JobRefs(jobs) ==
    IF Len(jobs) = 0 THEN << >> ELSE StepRefs(Head(jobs).steps) \o JobRefs(Tail(jobs))

-----------------------------------------------------------------------------
(* addPlaceholderStep *)

MaxJobs == 3    \* jobs of a document drawn for a stand-alone call

\* { name: "Custom placeholder step", run: "# TODO: add commands here" }
PlaceholderStep == [ name |-> "Custom placeholder step",
                     run  |-> "# TODO: add commands here" ]

\* {}: what `workflow.jobs[jobName] || {}` makes of a null job
EmptyObject == [ stepsKind |-> "absent", steps |-> 0, runsOn |-> "" ]

\* for (const jobName of Object.keys(workflow.jobs)) { ... }, from the k-th key
\* on. Every iteration works on the objects the document refers to: the job
\* object of the key (a new one when the job is null), its steps array (a
\* new one when steps is absent or null), on which the placeholder is pushed.
RECURSIVE PlaceholderLoop(_, _)
PlaceholderLoop(w, k) ==
    IF k > Len(w.jobs) THEN w
    ELSE LET ref == w.jobs[k].ref
             \* const job = workflow.jobs[jobName] || {}
             w1  == IF ref = 0 THEN [ w EXCEPT !.objs = Append(@, EmptyObject) ] ELSE w
             job == IF ref = 0 THEN Len(w1.objs) ELSE ref
             \* const steps = job.steps || []
             has == w1.objs[job].stepsKind = "list"
             w2  == IF has THEN w1 ELSE [ w1 EXCEPT !.lists = Append(@, << >>) ]
             steps == IF has THEN w1.objs[job].steps ELSE Len(w2.lists)
             \* steps.push({ ... })
             w3  == [ w2 EXCEPT !.lists[steps] = Append(@, PlaceholderStep) ]
             \* job.steps = steps; workflow.jobs[jobName] = job
             w4  == [ w3 EXCEPT !.objs[job].stepsKind = "list",
                                !.objs[job].steps = steps,
                                !.jobs[k].ref = job ]
         IN PlaceholderLoop(w4, k + 1)

\* if (!workflow.jobs) return workflow; ...; return workflow
addPlaceholderStep(workflow) ==
    IF workflow.jobsKind # "mapping" THEN workflow
    ELSE PlaceholderLoop(workflow, 1)

\* The documents a call is given
JobNames == << "build", "test", "deploy", "lint" >>
StepS1 == [ name |-> "s1", run |-> "make" ]
StepS2 == [ name |-> "s2", run |-> "make test" ]
InitialLists == << << >>, << StepS1 >>, << StepS1 >>, << StepS1, StepS2 >> >>
StepsChoices ==
    { [ stepsKind |-> "absent", steps |-> 0 ], [ stepsKind |-> "null", steps |-> 0 ] }
    \cup { [ stepsKind |-> "list", steps |-> l ] : l \in 1..Len(InitialLists) }

\* The first n jobs: each is null, the object of an earlier job, or an
\* object of its own whose steps are absent, null or one of the arrays
RECURSIVE JobsOf(_)
JobsOf(n) ==
    IF n = 0 THEN { [ jobs |-> << >>, objs |-> << >> ] }
    ELSE UNION {
           { [ jobs |-> Append(d.jobs, [ name |-> JobNames[n], ref |-> r ]),
               objs |-> d.objs ] : r \in 0..Len(d.objs) }
           \cup { [ jobs |-> Append(d.jobs, [ name |-> JobNames[n],
                                              ref |-> Len(d.objs) + 1 ]),
                    objs |-> Append(d.objs, [ stepsKind |-> c.stepsKind,
                                              steps |-> c.steps,
                                              runsOn |-> JobNames[n] ]) ]
                  : c \in StepsChoices }
           : d \in JobsOf(n - 1) }

Workflows ==
    { [ NoWorkflow EXCEPT !.title = "CI", !.jobsKind = kind ] : kind \in { "absent", "null" } }
    \cup { [ title |-> "CI", jobsKind |-> "mapping", jobs |-> d.jobs,
             objs |-> d.objs, lists |-> InitialLists ]
           : d \in UNION { JobsOf(n) : n \in 0..MaxJobs } }

\* The library is loaded and addPlaceholderStep is about to be called on a
\* document
InitPlaceholder ==
    /\ inventory = << >> /\ tree = MainTree(<< >>) /\ pc = "lib"
    /\ IdleScan /\ IdleExec /\ IdleMain /\ chk = NoCheck
    /\ ph \in { [ done |-> FALSE, workflow |-> w, out |-> NoWorkflow ] : w \in Workflows }

\* addPlaceholderStep(workflow) runs to its return
PlaceholderCall ==
    /\ pc = "lib" /\ ~ph.done
    /\ ph' = [ ph EXCEPT !.done = TRUE, !.out = addPlaceholderStep(ph.workflow) ]
    /\ UNCHANGED << inventory, tree, pc, scanVars, exitCode, console, execCalls,
                    restorePaths, di, ri, stepsDone, execVars, chk >>

SpecPlaceholder == InitPlaceholder /\ [][PlaceholderCall]_vars

\* The step list of the k-th job of a document (none: the empty list)
HasStepList(w, k) ==
    w.jobs[k].ref # 0 /\ w.objs[w.jobs[k].ref].stepsKind = "list"
StepsOfJob(w, k) ==
    IF HasStepList(w, k) THEN w.lists[w.objs[w.jobs[k].ref].steps] ELSE << >>

\* What addPlaceholderStep is to do to a document with a jobs mapping
PlaceholderAppended(old, new) ==
    /\ new.title = old.title /\ new.jobsKind = old.jobsKind
    /\ Len(new.jobs) = Len(old.jobs)
    /\ \A k \in 1..Len(old.jobs) :
         /\ new.jobs[k].name = old.jobs[k].name
         /\ HasStepList(new, k)
         /\ StepsOfJob(new, k) = Append(StepsOfJob(old, k), PlaceholderStep)
         /\ old.jobs[k].ref # 0 =>
              new.objs[new.jobs[k].ref].runsOn = old.objs[old.jobs[k].ref].runsOn

\* C11: addPlaceholderStep leaves a document without jobs key unchanged; in a
\* document with a jobs mapping every job ends with its former steps, in
\* order, followed by exactly one placeholder step (its list created when it
\* had none), no job is added or removed and no other key changes.
C11_OnePlaceholderPerJob ==
    ph.done =>
        /\ ph.workflow.jobsKind = "absent" => ph.out = ph.workflow
        /\ ph.workflow.jobsKind = "mapping" => PlaceholderAppended(ph.workflow, ph.out)
\* No two jobs of the document refer to one job object or to one steps array
Unshared(w) ==
    \A k, m \in 1..Len(w.jobs) :
        (k # m /\ w.jobs[k].ref # 0 /\ w.jobs[m].ref # 0) =>
            /\ w.jobs[k].ref # w.jobs[m].ref
            /\ (HasStepList(w, k) /\ HasStepList(w, m)) =>
                 w.objs[w.jobs[k].ref].steps # w.objs[w.jobs[m].ref].steps

\* The same for the documents in which the jobs share nothing: there every
\* job gets exactly one placeholder step.
PlaceholderOnUnshared ==
    (ph.done /\ ph.workflow.jobsKind = "mapping" /\ Unshared(ph.workflow)) =>
        PlaceholderAppended(ph.workflow, ph.out)

\* The document { build: { steps: [s1] }, test: { steps: [] } } has become
\* build.steps = [s1, placeholder], test.steps = [placeholder]
PlaceholderExample ==
    /\ ph.done /\ Len(ph.workflow.jobs) = 2 /\ Unshared(ph.workflow)
    /\ StepsOfJob(ph.workflow, 1) = << StepS1 >> /\ HasStepList(ph.workflow, 2)
    /\ StepsOfJob(ph.workflow, 2) = << >>
    /\ StepsOfJob(ph.out, 1) = << StepS1, PlaceholderStep >>
    /\ StepsOfJob(ph.out, 2) = << PlaceholderStep >>


-----------------------------------------------------------------------------
(* checkWorkflows: the inventory scan *)

\* fs.readdir(folder, { withFileTypes: true })
readdir(folder) == SelectSeq(inventory, LAMBDA e : e.folder = folder)

\* loadWorkflowProperties(folder, id): the parsed sidecar, or null when
\* require() throws (no file, or not JSON)
loadWorkflowProperties(folder, id) ==
    LET hits == { i \in 1..Len(inventory) :
                    /\ inventory[i].folder = folder
                    /\ IsCandidate(inventory[i])
                    /\ basenameExt(inventory[i].name, YmlExt) = id
                    /\ inventory[i].sidecar = "loaded" }
    IN IF hits = {} THEN [ null |-> TRUE, props |-> NoProps ]
       ELSE [ null |-> FALSE, props |-> inventory[CHOOSE i \in hits : TRUE].props ]

\* props.creator ? partnerSet.has(props.creator.toLowerCase()) : false
IsPartner(props) ==
    /\ props.hasCreator /\ Len(props.creator) > 0
    /\ toLowerCase(props.creator) \in LowerSet(partners)

\* a plausible slip: read-only folders are not treated specially
IsReadOnlyNever(folder) == FALSE

\* readOnlySet.has(folder)
IsReadOnly(folder) == folder \in Range(readOnlyFolders)

\* a plausible slip: the folder path itself is compared, not its base name
IsCodeScanningWholePath(folder) == folder = << "code-scanning" >>

\* basename(folder) === "code-scanning"
IsCodeScanning(folder) == basename(folder) = << "code-scanning" >>

\* The operands of `enabled` left of the call of checkWorkflow: the call is
\* evaluated only when they do not decide the result
ReachesCheck(props, folder) ==
    /\ ~IsPartner(props)
    /\ (props.enterprise = "true" \/ ~IsCodeScanning(folder))
    /\ ~IsReadOnly(folder)

\* const enabled = !isPartner && (props.enterprise === true || !isCodeScanning)
\*                 && (isReadOnly || (await checkWorkflow(...)))
Enabled(props, folder, checked) ==
    /\ ~IsPartner(props)
    /\ (props.enterprise = "true" \/ ~IsCodeScanning(folder))
    /\ (IsReadOnly(folder) \/ checked)

\* const desc: WorkflowDesc = { folder, id, iconName, iconType }
Desc(folder, id, props) ==
    [ folder |-> folder, id |-> id, hasIcon |-> props.hasIcon,
      iconName |-> props.iconName, iconType |-> IconType(props) ]

\* a plausible slip: an incompatible workflow is also kept in the compatible list
PushBoth(res, enabled, desc) ==
    [ compatibleWorkflows   |-> Append(res.compatibleWorkflows, desc),
      incompatibleWorkflows |-> IF enabled THEN res.incompatibleWorkflows
                                ELSE Append(res.incompatibleWorkflows, desc) ]

\* if (enabled) result.compatibleWorkflows.push(desc);
\* else result.incompatibleWorkflows.push(desc);
Push(res, enabled, desc) ==
    IF enabled
    THEN [ res EXCEPT !.compatibleWorkflows = Append(@, desc) ]
    ELSE [ res EXCEPT !.incompatibleWorkflows = Append(@, desc) ]

Line(msg, arg) == [ msg |-> msg, arg |-> arg ]

\* a plausible slip: the error is logged but the exit code is left alone
CatchExitCodeKept == exitCode

\* process.exitCode = 1 in the catch block of main()
CatchExitCode == 1

Scanning    == pc = "scan" /\ fi <= Len(folders)
HasEntry    == Scanning /\ ei <= Len(readdir(folders[fi]))
CurEntry    == readdir(folders[fi])[ei]
CurId       == basenameExt(CurEntry.name, YmlExt)
CurProps    == loadWorkflowProperties(folders[fi], CurId)
CurFile     == tree[WorkflowPath(folders[fi], CurEntry.name)]
CurChecked  == checkWorkflow(CurFile, enabledActions)

\* an entry that is no regular .yml file, or has no loadable sidecar: continue
ScanSkip ==
    /\ HasEntry
    /\ ~IsCandidate(CurEntry) \/ CurProps.null
    /\ ei' = ei + 1
    /\ UNCHANGED << inventory, tree, pc, fi, result, exitCode, console, execCalls,
                    restorePaths, di, ri, stepsDone, execVars, chk, ph >>

\* a workflow whose check completes (or is not needed): one descriptor pushed
ScanClassify ==
    /\ HasEntry /\ IsCandidate(CurEntry) /\ ~CurProps.null
    /\ LET props   == CurProps.props
           folder  == folders[fi]
           reaches == ReachesCheck(props, folder)
       IN /\ ~(reaches /\ CurChecked.threw)
          /\ result' = Push(result,
                            Enabled(props, folder, reaches /\ CurChecked.ok),
                            Desc(folder, CurId, props))
          /\ console' = IF reaches /\ ~CurChecked.ok
                        THEN Append(console, Line("not supported for GHES", CurChecked.info))
                        ELSE console
    /\ ei' = ei + 1
    /\ UNCHANGED << inventory, tree, pc, fi, exitCode, execCalls,
                    restorePaths, di, ri, stepsDone, execVars, chk, ph >>

\* checkWorkflow throws: the error leaves checkWorkflows and is caught in main()
ScanThrow ==
    /\ HasEntry /\ IsCandidate(CurEntry) /\ ~CurProps.null
    /\ ReachesCheck(CurProps.props, folders[fi]) /\ CurChecked.threw
    /\ console' = console \o << Line("Error checking workflow", CurId),
                                Line("Fatal error", CurId) >>
    /\ exitCode' = CatchExitCode
    /\ pc' = "done"
    /\ UNCHANGED << inventory, tree, scanVars, execCalls,
                    restorePaths, di, ri, stepsDone, execVars, chk, ph >>

\* the entries of the folder are exhausted: the next folder
ScanNextFolder ==
    /\ Scanning /\ ei > Len(readdir(folders[fi]))
    /\ fi' = fi + 1 /\ ei' = 1
    /\ UNCHANGED << inventory, tree, pc, result, exitCode, console, execCalls,
                    restorePaths, di, ri, stepsDone, execVars, chk, ph >>

\* return result
ScanReturn ==
    /\ pc = "scan" /\ fi > Len(folders)
    /\ pc' = "report"
    /\ stepsDone' = Append(stepsDone, "scan")
    /\ UNCHANGED << inventory, tree, scanVars, exitCode, console, execCalls,
                    restorePaths, di, ri, execVars, chk, ph >>

-----------------------------------------------------------------------------
(* main(): the orchestration *)

\* result.xWorkflows.map((x) => `${x.folder}/${x.id}`)
Names(list) == [ i \in 1..Len(list) |-> pathJoin(<< list[i].folder, list[i].id >>) ]

\* the two console.group blocks, then exec("git", ["checkout", "ghes"])
Report ==
    /\ pc = "report"
    /\ console' = console \o
         << Line("Compatible workflows", Names(result.compatibleWorkflows)),
            Line("Incompatible workflows", Names(result.incompatibleWorkflows)),
            Line("Switching to GHES branch", << >>) >>
    /\ execBody(GitCheckoutGhes, FALSE, 0)
    /\ pc' = "await_checkout"
    /\ stepsDone' = Append(stepsDone, "report")
    /\ UNCHANGED << inventory, tree, scanVars, exitCode, restorePaths, di, ri, chk, ph >>

\* a plausible slip: every folder is deleted, the read-only ones too
ModifiableAll == folders

\* settings.folders.filter((f) => !settings.readOnlyFolders.includes(f))
Modifiable == SelectSeq(folders, LAMBDA f : f \notin Range(readOnlyFolders))

\* exec("rm", ["-fr", ...modifiable])
RmFolders ==
    /\ pc = "await_checkout" /\ promise = "resolved"
    /\ console' = Append(console, Line("Removing modifiable workflows", << >>))
    /\ execBody(RmFr(Modifiable), FALSE, 0)
    /\ pc' = "await_rm_folders"
    /\ stepsDone' = Append(stepsDone, "checkout")
    /\ UNCHANGED << inventory, tree, scanVars, exitCode, restorePaths, di, ri, chk, ph >>

\* exec("rm", ["-fr", "../../icons"])
RmIcons ==
    /\ pc = "await_rm_folders" /\ promise = "resolved"
    /\ execBody(RmFr(<< IconsDir >>), FALSE, 0)
    /\ pc' = "await_rm_icons"
    /\ UNCHANGED << inventory, tree, scanVars, exitCode, console, restorePaths,
                    di, ri, stepsDone, chk, ph >>

\* for (const folder of settings.readOnlyFolders)
\*   exec("git", ["checkout", "main", "--", folder])
RestoreReadOnly ==
    /\ pc \in { "await_rm_icons", "await_restore_ro" } /\ promise = "resolved"
    /\ ri <= Len(readOnlyFolders)
    /\ console' = IF pc = "await_rm_icons"
                  THEN Append(console, Line("Restoring read-only folders", << >>))
                  ELSE console
    /\ execBody(GitCheckoutMain(<< readOnlyFolders[ri] >>), FALSE, 0)
    /\ ri' = ri + 1
    /\ pc' = "await_restore_ro"
    /\ stepsDone' = IF pc = "await_rm_icons" THEN Append(stepsDone, "delete")
                    ELSE stepsDone
    /\ UNCHANGED << inventory, tree, scanVars, exitCode, restorePaths, di, chk, ph >>

\* The paths one compatible workflow adds to restorePaths
\* a plausible slip: the sidecar of a compatible workflow is not restored
PathsOfWithoutSidecar(wf) ==
    (IF wf.folder \notin Range(readOnlyFolders)
     THEN << YmlPath(wf.folder, wf.id) >>
     ELSE << >>)
    \o (IF wf.iconType = "svg" /\ wf.hasIcon /\ Len(wf.iconName) > 0
        THEN << IconPath(wf.iconName) >>
        ELSE << >>)

\* restorePaths.push(...) for one compatible workflow
PathsOf(wf) ==
    (IF wf.folder \notin Range(readOnlyFolders)
     THEN << YmlPath(wf.folder, wf.id), SidecarPath(wf.folder, wf.id) >>
     ELSE << >>)
    \o (IF wf.iconType = "svg" /\ wf.hasIcon /\ Len(wf.iconName) > 0
        THEN << IconPath(wf.iconName) >>
        ELSE << >>)

RECURSIVE CollectPaths(_)
CollectPaths(list) ==
    IF Len(list) = 0 THEN << >>
    ELSE PathsOf(Head(list)) \o CollectPaths(Tail(list))

\* restorePaths is built; if (restorePaths.length > 0) exec("git", ["checkout",
\* "main", "--", ...restorePaths]); else downgradeArtifactActions starts
RestoreCompatible ==
    /\ pc \in { "await_rm_icons", "await_restore_ro" } /\ promise = "resolved"
    /\ ri > Len(readOnlyFolders)
    /\ restorePaths' = CollectPaths(result.compatibleWorkflows)
    /\ IF Len(restorePaths') > 0
       THEN /\ execBody(GitCheckoutMain(restorePaths'), FALSE, 0)
            /\ pc' = "await_restore"
            /\ stepsDone' = Append(stepsDone, "restoreReadOnly")
            /\ console' = Append(console, Line("Restoring compatible workflows", << >>))
       ELSE /\ UNCHANGED << execVars, execCalls >>
            /\ pc' = "downgrade"
            /\ stepsDone' = stepsDone \o << "restoreReadOnly", "restoreCompatible" >>
            /\ console' = console \o
                 << Line("Restoring compatible workflows", << >>),
                    Line("Downgrading artifact actions", << >>) >>
    /\ UNCHANGED << inventory, tree, scanVars, exitCode, di, ri, chk, ph >>

\* the restore resolved: downgradeArtifactActions(...) is entered
BeginDowngrade ==
    /\ pc = "await_restore" /\ promise = "resolved"
    /\ pc' = "downgrade"
    /\ stepsDone' = Append(stepsDone, "restoreCompatible")
    /\ console' = Append(console, Line("Downgrading artifact actions", << >>))
    /\ UNCHANGED << inventory, tree, scanVars, exitCode, execCalls, restorePaths,
                    di, ri, execVars, chk, ph >>

AtV4       == << "@", "v4" >>
UploadV4   == << "actions", "/", "upload-artifact", "@", "v4" >>
UploadV3   == << "actions", "/", "upload-artifact", "@", "v3" >>
DownloadV4 == << "actions", "/", "download-artifact", "@", "v4" >>
DownloadV3 == << "actions", "/", "download-artifact", "@", "v3" >>

\* The content of a file is its lines; a pattern without a newline is looked
\* for in each line
TextIncludes(text, pat) == \E i \in 1..Len(text) : includes(text[i], pat)
TextReplace(text, pat, rep) == [ i \in 1..Len(text) |-> replaceAll(text[i], pat, rep) ]

\* a plausible slip: replace() with a string pattern changes the first match only
RECURSIVE ReplaceFirstInText(_, _, _)
ReplaceFirstInText(text, pat, rep) ==
    IF Len(text) = 0 THEN << >>
    ELSE IF includes(Head(text), pat)
    THEN LET l == Head(text)
             k == CHOOSE k \in 1..Len(l) :
                      MatchAt(l, pat, k) /\ \A j \in 1..(k - 1) : ~MatchAt(l, pat, j)
         IN << SubSeq(l, 1, k - 1) \o rep \o SubSeq(l, k + Len(pat), Len(l)) >>
            \o Tail(text)
    ELSE << Head(text) >> \o ReplaceFirstInText(Tail(text), pat, rep)
UpdatedFirstOnly(content) ==
    ReplaceFirstInText(ReplaceFirstInText(content, UploadV4, UploadV3),
                       DownloadV4, DownloadV3)

\* let updated = content.replace(/actions\/upload-artifact@v4/g, "...@v3");
\* updated = updated.replace(/actions\/download-artifact@v4/g, "...@v3");
Updated(content) ==
    TextReplace(TextReplace(content, UploadV4, UploadV3), DownloadV4, DownloadV3)

\* One iteration of the loop of downgradeArtifactActions; a file that cannot
\* be read throws into the catch of main()
DowngradeOne ==
    /\ pc = "downgrade" /\ di <= Len(result.compatibleWorkflows)
    /\ LET wf   == result.compatibleWorkflows[di]
           path == YmlPath(wf.folder, wf.id)
       IN IF wf.folder \in Range(readOnlyFolders)
          THEN /\ di' = di + 1
               /\ UNCHANGED << tree, console, exitCode, pc >>
          ELSE IF path \notin DOMAIN tree \/ ~tree[path].present \/ ~tree[path].readable
          THEN /\ console' = Append(console, Line("Fatal error", path))
               /\ exitCode' = CatchExitCode
               /\ pc' = "done"
               /\ UNCHANGED << tree, di >>
          ELSE IF ~TextIncludes(tree[path].text, AtV4)
          THEN /\ di' = di + 1
               /\ UNCHANGED << tree, console, exitCode, pc >>
          ELSE /\ tree' = [ tree EXCEPT ![path] = File(Updated(tree[path].text)) ]
               /\ console' = Append(console, Line("Updating", path))
               /\ di' = di + 1
               /\ UNCHANGED << exitCode, pc >>
    /\ UNCHANGED << inventory, scanVars, execCalls, restorePaths, ri, stepsDone,
                    execVars, chk, ph >>

\* downgradeArtifactActions returns; main() ends
DowngradeReturn ==
    /\ pc = "downgrade" /\ di > Len(result.compatibleWorkflows)
    /\ pc' = "done"
    /\ stepsDone' = Append(stepsDone, "downgrade")
    /\ UNCHANGED << inventory, tree, scanVars, exitCode, console, execCalls,
                    restorePaths, di, ri, execVars, chk, ph >>

\* catch (err) { console.error("Fatal error", err); process.exitCode = 1; }
Catch ==
    /\ pc \in AwaitPcs /\ promise = "rejected"
    /\ console' = Append(console, Line("Fatal error", cp.command))
    /\ exitCode' = CatchExitCode
    /\ pc' = "done"
    /\ UNCHANGED << inventory, tree, scanVars, execCalls, restorePaths, di, ri,
                    stepsDone, execVars, chk, ph >>

-----------------------------------------------------------------------------
(* The inventories the script is run on *)

Creators == { [ hasCreator |-> FALSE, creator |-> << >> ],
              [ hasCreator |-> TRUE,  creator |-> << "RED", " ", "HAT" >> ],
              [ hasCreator |-> TRUE,  creator |-> << "Octo" >> ] }
EnterpriseValues == { "undefined", "true", "false" }
Icons == { [ hasIcon |-> FALSE, iconName |-> << >> ],
           [ hasIcon |-> TRUE,  iconName |-> << "octicon", " ", "gear" >> ],
           [ hasIcon |-> TRUE,  iconName |-> << "go" >> ] }

PropsOf(c, ent, ic) ==
    [ hasCreator |-> c.hasCreator, creator |-> c.creator, enterprise |-> ent,
      hasIcon |-> ic.hasIcon, iconName |-> ic.iconName ]
AllProps == { PropsOf(c, ent, ic) : c \in Creators, ent \in EnterpriseValues, ic \in Icons }

TextOk   == << KeyLine, JobLine, UsesLine(RefCheckout), RunLine >>
TextV4   == << KeyLine, JobLine, UsesLine(UploadV4), UsesLine(DownloadV4) >>
TextEvil == << KeyLine, JobLine, UsesLine(RefEvil) >>
TextJunk == << JunkLine >>
Contents == { File(TextOk), File(TextV4), File(TextEvil), File(TextJunk), Unreadable }

NameA == << "a", ".yml" >>
NameB == << "b", ".yml" >>
NameC == << "c", ".yml" >>
NameD == << "d", ".yml" >>

Entry(folder, name, isFile, sidecar, props, file) ==
    [ folder |-> folder, name |-> name, isFile |-> isFile, sidecar |-> sidecar,
      props |-> props, file |-> file ]

\* Every kind of single entry: a file that is no .yml, a directory named like
\* one, a workflow without a usable sidecar, and a workflow with every
\* combination of creator, enterprise flag, icon and content
OneEntries ==
    UNION { { Entry(f, << "a", ".yaml" >>, TRUE, "missing", NoProps, File(TextOk)),
              Entry(f, NameD, FALSE, "missing", NoProps, Absent),
              Entry(f, NameA, TRUE, "missing", NoProps, File(TextJunk)),
              Entry(f, NameA, TRUE, "unparsable", NoProps, File(TextJunk)) }
            \cup { Entry(f, NameA, TRUE, "loaded", p, c) : p \in AllProps, c \in Contents }
          : f \in Range(folders) }

\* The entries inventories of several entries are made of
MixEntries ==
    { Entry(FolderCi, NameA, TRUE, "loaded",
            PropsOf([ hasCreator |-> FALSE, creator |-> << >> ], "undefined",
                    [ hasIcon |-> TRUE, iconName |-> << "go" >> ]), File(TextV4)),
      Entry(FolderCi, NameB, TRUE, "loaded",
            PropsOf([ hasCreator |-> TRUE, creator |-> << "Octo" >> ], "false",
                    [ hasIcon |-> TRUE, iconName |-> << "octicon", " ", "gear" >> ]),
            File(TextEvil)),
      Entry(FolderCi, NameC, TRUE, "missing", NoProps, File(TextJunk)),
      Entry(FolderCi, NameD, FALSE, "missing", NoProps, Absent),
      Entry(FolderAutomation, NameA, TRUE, "loaded", NoProps, File(TextJunk)),
      Entry(FolderCodeScanning, NameA, TRUE, "loaded",
            PropsOf([ hasCreator |-> FALSE, creator |-> << >> ], "true",
                    [ hasIcon |-> FALSE, iconName |-> << >> ]), File(TextOk)),
      Entry(FolderPages, NameA, TRUE, "loaded",
            PropsOf([ hasCreator |-> FALSE, creator |-> << >> ], "undefined",
                    [ hasIcon |-> TRUE, iconName |-> << "pages" >> ]), File(TextEvil)),
      Entry(FolderPages, NameB, TRUE, "loaded",
            PropsOf([ hasCreator |-> TRUE, creator |-> << "Ibm" >> ], "undefined",
                    [ hasIcon |-> TRUE, iconName |-> << "go" >> ]), File(TextOk)) }

\* An inventory lists the directories folder by folder, in the order main()
\* scans them, and each directory in any order readdir may return
FolderPos(f) == CHOOSE i \in 1..Len(folders) : folders[i] = f
MixInventories ==
    UNION { { inv \in [ 1..n -> MixEntries ] :
                \A i, j \in 1..n :
                    i < j => /\ inv[i] # inv[j]
                             /\ FolderPos(inv[i].folder) <= FolderPos(inv[j].folder) }
          : n \in 0..MaxEntries }

\* Lines that hold, or nearly hold, the references the downgrade rewrites
DowngradeLines ==
    { RunLine,
      UsesLine(UploadV4),
      UsesLine(DownloadV4),
      UsesLine(UploadV3),
      UsesLine(<< "actions", "/", "checkout", "@", "v4" >>),
      CommentLine(<< "my-", "actions", "/", "upload-artifact", "@", "v4", ".1", " ",
                     "actions", "/", "upload-artifact", "@", "v4", " ",
                     "actions", "/", "download-artifact", "@", "v4" >>) }

DowngradeTexts ==
    UNION { { << KeyLine, JobLine >> \o t : t \in [ 1..n -> DowngradeLines ] }
          : n \in 0..MaxTextLines }

Inventories ==
    { << e >> : e \in OneEntries }
    \cup MixInventories
    \cup { << Entry(FolderCi, NameA, TRUE, "loaded", NoProps, File(t)) >> :
             t \in DowngradeTexts }

\* main() is about to call checkWorkflows; the working tree is on the source
\* branch
Init ==
    /\ inventory \in Inventories
    /\ tree = MainTree(inventory)
    /\ pc = "scan"
    /\ IdleScan /\ IdleExec /\ IdleMain /\ chk = NoCheck
    /\ ph = NoPlaceholderCall

Next ==
    \/ ScanSkip \/ ScanClassify \/ ScanThrow \/ ScanNextFolder \/ ScanReturn
    \/ Report \/ RmFolders \/ RmIcons \/ RestoreReadOnly \/ RestoreCompatible
    \/ BeginDowngrade \/ DowngradeOne \/ DowngradeReturn \/ Catch
    \/ ExecError \/ ExecClose

Spec == Init /\ [][Next]_vars

-----------------------------------------------------------------------------
(* Properties of the scan *)

\* checkWorkflows has returned its result to main()
ScanDone == Len(stepsDone) > 0

\* The regular .yml files of the inventory, and those with a loadable sidecar
YmlFiles   == { e \in Range(inventory) : e.isFile /\ e.name[Len(e.name)] = ".yml" }
WithProps  == { e \in YmlFiles : e.sidecar = "loaded" }
IdOf(e)    == SubSeq(e.name, 1, Len(e.name) - 1)

InList(list, e) ==
    \E i \in 1..Len(list) : list[i].folder = e.folder /\ list[i].id = IdOf(e)

\* The three conditions of the specification, in its own terms
PartnerCreator(e) ==
    /\ e.props.hasCreator
    /\ \E i \in 1..Len(partners) : toLowerCase(e.props.creator) = toLowerCase(partners[i])
RestrictedFolder(e) == e.folder[Len(e.folder)] = "code-scanning"
ReadOnlyFolder(e)   == \E i \in 1..Len(readOnlyFolders) : readOnlyFolders[i] = e.folder
PolicyAllows(e) ==
    /\ ~PartnerCreator(e)
    /\ (e.props.enterprise = "true" \/ ~RestrictedFolder(e))

\* C1: once the scan has returned, a workflow with a sidecar is in the
\* compatible list iff its creator is no partner, it is enterprise-enabled or
\* outside code-scanning, and its folder is read-only or checkWorkflow
\* returned true for it; otherwise it is in the incompatible list.
C1_Classification ==
    ScanDone =>
        \A e \in WithProps :
            LET r   == checkWorkflow(e.file, enabledActions)
                yes == /\ PolicyAllows(e)
                       /\ (ReadOnlyFolder(e) \/ (~r.threw /\ r.ok))
            IN /\ InList(result.compatibleWorkflows, e) <=> yes
               /\ InList(result.incompatibleWorkflows, e) <=> ~yes

\* C1 witness: a partner workflow of a read-only folder, all of whose actions
\* are allowed, ended in the incompatible list
C1_Witness ==
    /\ ScanDone
    /\ \E e \in WithProps :
         /\ PartnerCreator(e) /\ ReadOnlyFolder(e) /\ e.file = File(TextOk)
         /\ InList(result.incompatibleWorkflows, e)

\* A file with a uses reference whose owner/repo is not in the allow-list
HasUnlistedReference(file) ==
    /\ file.present /\ file.readable
    /\ LET doc  == safeLoad(file.text)
           refs == JobRefs(doc.jobs)
       IN /\ doc.kind = "mapping"
          /\ \E i \in 1..Len(refs) : RefKey(refs[i]) \notin LowerSet(enabledActions)

\* C2 as stated: a workflow with an unlisted reference is incompatible, unless
\* its folder is read-only, and then it is always compatible.
C2_Original ==
    ScanDone =>
        \A e \in WithProps :
            HasUnlistedReference(e.file) =>
                /\ ~checkWorkflow(e.file, enabledActions).ok
                /\ IF ReadOnlyFolder(e)
                   THEN InList(result.compatibleWorkflows, e)
                   ELSE InList(result.incompatibleWorkflows, e)

\* C2 amended: a workflow (with a sidecar) that has an unlisted reference makes
\* checkWorkflow return false and is in the incompatible list, unless its
\* folder is read-only: then its references are not looked at, and it is in
\* the compatible list iff its creator is no partner and it is
\* enterprise-enabled or outside code-scanning.
C2_UnlistedReference ==
    ScanDone =>
        \A e \in WithProps :
            HasUnlistedReference(e.file) =>
                /\ ~checkWorkflow(e.file, enabledActions).ok
                /\ IF ReadOnlyFolder(e)
                   THEN /\ InList(result.compatibleWorkflows, e) <=> PolicyAllows(e)
                        /\ InList(result.incompatibleWorkflows, e) <=> ~PolicyAllows(e)
                   ELSE /\ InList(result.incompatibleWorkflows, e)
                        /\ ~InList(result.compatibleWorkflows, e)

\* C2 witness: a workflow of the read-only folder that uses an unlisted action
\* is in the compatible list
C2_Witness ==
    /\ ScanDone
    /\ \E e \in WithProps :
         /\ HasUnlistedReference(e.file) /\ ReadOnlyFolder(e)
         /\ InList(result.compatibleWorkflows, e)

Both == result.compatibleWorkflows \o result.incompatibleWorkflows
Occurrences(e) ==
    Cardinality({ i \in 1..Len(Both) : Both[i].folder = e.folder /\ Both[i].id = IdOf(e) })

CannotLoad(file) ==
    ~file.present \/ ~file.readable \/ safeLoad(file.text).kind # "mapping"

\* C4: the result is a partition of the workflows that have a sidecar: each
\* occurs once, in one list, with its own descriptor; a .yml file without a
\* loadable sidecar occurs in neither list and is never what makes the scan
\* fail; every descriptor belongs to a .yml file with a sidecar.
C4_Partition ==
    /\ ScanDone =>
         /\ \A e \in WithProps :
              /\ Occurrences(e) = 1
              /\ \E i \in 1..Len(Both) :
                   Both[i] = [ folder |-> e.folder, id |-> IdOf(e),
                               hasIcon |-> e.props.hasIcon,
                               iconName |-> e.props.iconName,
                               iconType |-> IF e.props.hasIcon
                                               /\ e.props.iconName[1] = "octicon"
                                            THEN "octicon" ELSE "svg" ]
         /\ \A e \in YmlFiles \ WithProps : Occurrences(e) = 0
         /\ \A i \in 1..Len(Both) :
              \E e \in WithProps : Both[i].folder = e.folder /\ Both[i].id = IdOf(e)
    /\ (pc = "done" /\ ~ScanDone) => \E e \in WithProps : CannotLoad(e.file)

\* C4 witness: a scan over three .yml files returned one compatible and one
\* incompatible workflow and left out the file that has no sidecar
C4_Witness ==
    /\ ScanDone
    /\ Len(result.compatibleWorkflows) = 1
    /\ Len(result.incompatibleWorkflows) = 1
    /\ Cardinality(YmlFiles) = 3
    /\ \E e \in YmlFiles : e.sidecar = "missing" /\ CannotLoad(e.file)

\* The check of a workflow is reached: nothing left of it decides `enabled`
CheckReached(e) == PolicyAllows(e) /\ ~ReadOnlyFolder(e)

RunAbortedInScan ==
    /\ pc = "done" /\ exitCode # 0 /\ ~ScanDone
    /\ execCalls = << >> /\ tree = MainTree(inventory)

\* C8 as stated: whatever its creator, enterprise flag and folder, a workflow
\* whose YAML cannot be read or parsed makes the scan fail and is never
\* classified as incompatible.
C8_Original ==
    \A e \in WithProps :
        CannotLoad(e.file) =>
            /\ ~InList(result.incompatibleWorkflows, e)
            /\ pc # "scan" => RunAbortedInScan

\* C8 amended: a workflow with a sidecar whose YAML cannot be read or parsed
\* makes the scan fail (non-zero exit, no branch switch, no deletion, never
\* classified) when the scan reaches its check, that is when its creator is no
\* partner, it is enterprise-enabled or outside code-scanning and its folder is
\* not read-only; otherwise the file is not read and the workflow is
\* classified like any other.
C8_UnparsableWorkflow ==
    \A e \in WithProps :
        CannotLoad(e.file) =>
            IF CheckReached(e)
            THEN /\ ~InList(Both, e)
                 /\ pc # "scan" => RunAbortedInScan
            ELSE ScanDone =>
                 /\ InList(result.compatibleWorkflows, e) <=> PolicyAllows(e)
                 /\ InList(result.incompatibleWorkflows, e) <=> ~PolicyAllows(e)

\* C8 witness: the run ended in the scan on an unparsable workflow
C8_Witness ==
    /\ RunAbortedInScan
    /\ \E e \in WithProps : CheckReached(e) /\ e.file = File(TextJunk)

-----------------------------------------------------------------------------
(* Properties of the orchestration *)

\* C6: a run in which no step fails performs, in this order, the scan, the
\* report, the checkout of the deployment branch, the deletion, the restore
\* of the read-only folders, the restore of the compatible workflows, the
\* version downgrade, the placeholder-step insertion and the regeneration of
\* CODEOWNERS.
C6_NineSteps ==
    (pc = "done" /\ exitCode = 0) =>
        stepsDone = << "scan", "report", "checkout", "delete", "restoreReadOnly",
                       "restoreCompatible", "downgrade", "placeholder", "codeowners" >>

\* The steps main() performs, in order
StepsOfMain == << "scan", "report", "checkout", "delete", "restoreReadOnly",
                  "restoreCompatible", "downgrade" >>

\* The steps completed when the k-th command of a run is issued
StepsBeforeCommand(k) ==
    SubSeq(StepsOfMain, 1, CASE k = 1 -> 2 [] k \in { 2, 3 } -> 3 [] k = 4 -> 4
                             [] OTHER -> 5)

\* The working tree after the commands cmds have succeeded, one after another
RECURSIVE TreeAfter(_, _)
TreeAfter(cmds, t) ==
    IF Len(cmds) = 0 THEN t ELSE TreeAfter(Tail(cmds), Effect(Head(cmds), t))

CommandFailed == Len(execCalls) > 0 /\ promise = "rejected"

\* C7: when a command of the orchestration fails, it is the last command
\* issued and was issued once, the steps completed and the working tree are
\* those of the commands before it, and the run ends with the error logged
\* and a non-zero exit code; the exit code is non-zero only after a failure,
\* and a run in which nothing fails ends with exit code zero.
C7_CommandFailure ==
    /\ CommandFailed =>
         /\ pc \in AwaitPcs \cup { "done" }
         /\ execCalls[Len(execCalls)] = cp.command
         /\ \A i, j \in 1..Len(execCalls) : execCalls[i] = execCalls[j] => i = j
         /\ stepsDone = StepsBeforeCommand(Len(execCalls))
         /\ tree = TreeAfter(SubSeq(execCalls, 1, Len(execCalls) - 1),
                             MainTree(inventory))
         /\ pc = "done" =>
              /\ exitCode # 0
              /\ console[Len(console)].msg = "Fatal error"
    /\ exitCode # 0 => (pc = "done" /\ (CommandFailed \/ ~ScanDone))
    /\ (pc = "done" /\ ScanDone /\ ~CommandFailed) =>
         (exitCode = 0 /\ stepsDone = StepsOfMain)

\* C7 witness: the third command (rm of the icons) was spawned, exited
\* non-zero, and the run has ended
C7_Witness ==
    /\ pc = "done" /\ CommandFailed /\ Len(execCalls) = 3
    /\ cp.spawnOk /\ cp.closeCode = 1

ReadOnlyPath(p) == \E i \in 1..Len(readOnlyFolders) : Under(p, readOnlyFolders[i])

IsRm(argv) == argv[1] = Arg("rm")

\* What C9 says of every moment of a run: no rm is given a read-only folder,
\* a path inside one or a path that contains one; restorePaths holds no path
\* of a read-only folder, and holds the svg icon of every compatible read-only
\* workflow that has one; the downgrade writes no file of a read-only folder.
ReadOnlyUntouched ==
    /\ \A k \in 1..Len(execCalls) :
         IsRm(execCalls[k]) =>
           \A a \in 3..Len(execCalls[k]), i \in 1..Len(readOnlyFolders) :
             /\ ~Under(readOnlyFolders[i], execCalls[k][a])
             /\ ~Under(execCalls[k][a], readOnlyFolders[i])
    /\ \A k \in 1..Len(restorePaths) : ~ReadOnlyPath(restorePaths[k])
    /\ "restoreCompatible" \in Range(stepsDone) =>
         \A i \in 1..Len(result.compatibleWorkflows) :
           LET wf == result.compatibleWorkflows[i] IN
           (ReadOnlyPath(wf.folder) /\ wf.hasIcon /\ wf.iconName[1] # "octicon")
             => \E k \in 1..Len(restorePaths) :
                  restorePaths[k] = IconsDir \o << "/" >> \o wf.iconName \o << ".svg" >>
    /\ \A c \in 1..Len(console) :
         console[c].msg = "Updating" => ~ReadOnlyPath(console[c].arg)

RestoredReadOnly == "restoreReadOnly" \in Range(stepsDone)

\* C9 as stated: the tool deletes and rewrites nothing of a read-only folder,
\* and from the restore of the read-only folders on, in particular after a
\* successful run, the content of every read-only folder is the source
\* branch's content.
C9_Original ==
    /\ ReadOnlyUntouched
    /\ RestoredReadOnly =>
         \A p \in DOMAIN tree :
           ReadOnlyPath(p) => tree[p] = MainTree(inventory)[p]

\* C9 amended: the tool deletes and rewrites nothing of a read-only folder; a
\* file of a read-only folder is only ever as the source branch or as the
\* deployment branch has it; from the restore of the read-only folders on,
\* every file the source branch has there is the source branch's version, and
\* a file only the deployment branch has there is still in place.
C9_ReadOnlyFolders ==
    /\ ReadOnlyUntouched
    /\ \A p \in DOMAIN tree :
         ReadOnlyPath(p) =>
           /\ tree[p] \in { MainTree(inventory)[p], GhesTree(inventory)[p] }
           /\ (RestoredReadOnly /\ MainTree(inventory)[p].present)
                => tree[p] = MainTree(inventory)[p]
           /\ (RestoredReadOnly /\ ~MainTree(inventory)[p].present)
                => tree[p] = GhesTree(inventory)[p]

\* C9 witness: a successful run over a read-only workflow whose file holds
\* the references the downgrade rewrites elsewhere, and has an svg icon; the
\* file only the deployment branch has in the read-only folder is in place
C9_Witness ==
    /\ pc = "done" /\ exitCode = 0 /\ execCalls # << >>
    /\ \E p \in DeploymentOnlyPaths : ReadOnlyPath(p) /\ tree[p] = StaleFile
    /\ \E i \in 1..Len(result.compatibleWorkflows) :
         LET wf == result.compatibleWorkflows[i] IN
         /\ ReadOnlyPath(wf.folder) /\ wf.hasIcon /\ wf.iconType = "svg"
         /\ tree[YmlPath(wf.folder, wf.id)] = File(TextV4)

\* Position k of line l is the "v4" of a reference the downgrade rewrites
RewrittenV4(l, k) ==
    /\ k >= 5 /\ l[k] = "v4"
    /\ \/ SubSeq(l, k - 4, k) = << "actions", "/", "upload-artifact", "@", "v4" >>
       \/ SubSeq(l, k - 4, k) = << "actions", "/", "download-artifact", "@", "v4" >>

\* C10: after the downgrade step, the file of every compatible workflow
\* outside the read-only folders is the source file with the "v4" of every
\* actions/upload-artifact@v4 and actions/download-artifact@v4 turned into
\* "v3" and nothing else changed, so no such @v4 reference is left; a file
\* without "@v4" is not written and is identical to its source.
C10_Downgrade ==
    "downgrade" \in Range(stepsDone) =>
        \A i \in 1..Len(result.compatibleWorkflows) :
            LET wf   == result.compatibleWorkflows[i]
                path == wf.folder \o << "/" >> \o wf.id \o << ".yml" >>
                old  == MainTree(inventory)[path].text
                new  == tree[path].text
            IN ~ReadOnlyPath(wf.folder) =>
                 /\ Len(new) = Len(old)
                 /\ \A n \in 1..Len(old) :
                      /\ Len(new[n]) = Len(old[n])
                      /\ \A k \in 1..Len(old[n]) :
                           new[n][k] = IF RewrittenV4(old[n], k) THEN "v3"
                                       ELSE old[n][k]
                      /\ \A k \in 1..Len(new[n]) : ~RewrittenV4(new[n], k)
                 /\ (\A n \in 1..Len(old) : \A k \in 2..Len(old[n]) :
                        ~(old[n][k - 1] = "@" /\ old[n][k] = "v4"))
                      => /\ new = old
                         /\ \A c \in 1..Len(console) :
                              ~(console[c].msg = "Updating" /\ console[c].arg = path)

\* C10 witness: a run downgraded a compatible workflow whose file held both
\* references, one of them twice on a line
C10_Witness ==
    /\ "downgrade" \in Range(stepsDone)
    /\ \E i \in 1..Len(result.compatibleWorkflows) :
         LET wf   == result.compatibleWorkflows[i]
             path == YmlPath(wf.folder, wf.id)
             old  == MainTree(inventory)[path].text
         IN /\ ~ReadOnlyPath(wf.folder)
            /\ tree[path].text # old
            /\ \E n \in 1..Len(old) :
                 /\ Cardinality({ k \in 1..Len(old[n]) : MatchAt(old[n], UploadV4, k) }) = 2
                 /\ includes(old[n], DownloadV4)

-----------------------------------------------------------------------------
(* the working tree a successful run leaves *)

SuccessfulRun == pc = "done" /\ exitCode = 0 /\ ScanDone

Compatible == { e \in WithProps : InList(result.compatibleWorkflows, e) }

\* The .yml file and the sidecar of a workflow, and the svg icon it names
FilesOf(e) ==
    { e.folder \o << "/" >> \o e.name,
      e.folder \o << "/", "properties", "/" >> \o IdOf(e)
          \o << ".properties", ".json" >> }
SvgIconOf(e) == IconsDir \o << "/" >> \o e.props.iconName \o << ".svg" >>
NamesSvgIcon(e) == e.props.hasIcon /\ e.props.iconName[1] # "octicon"

\* C12: after a run that ends without error, a file under a workflow folder
\* that is not read-only exists iff it is the .yml file or the sidecar of a
\* workflow of that folder the scan put in the compatible list, so no file of
\* an incompatible or skipped workflow is left; a file of the icons directory
\* exists only if it is the svg icon a compatible workflow names; and every
\* icon path in restorePaths is that of a compatible workflow whose icon name
\* is present and does not start with "octicon".
C12_SyncedTree ==
    SuccessfulRun =>
      /\ \A p \in DOMAIN tree :
           \A f \in Range(folders) \ Range(readOnlyFolders) :
             Under(p, f) =>
               (tree[p].present <=> \E e \in Compatible : e.folder = f /\ p \in FilesOf(e))
      /\ \A e \in YmlFiles \ Compatible :
           ~ReadOnlyFolder(e) =>
             \A p \in FilesOf(e) : p \in DOMAIN tree => ~tree[p].present
      /\ \A e \in Compatible :
           ~ReadOnlyFolder(e) => \A p \in FilesOf(e) : p \in DOMAIN tree /\ tree[p].present
      /\ \A p \in DOMAIN tree :
           (Under(p, IconsDir) /\ tree[p].present) =>
             \E e \in Compatible : NamesSvgIcon(e) /\ p = SvgIconOf(e)
      /\ \A k \in 1..Len(restorePaths) :
           Under(restorePaths[k], IconsDir) =>
             \E e \in Compatible : NamesSvgIcon(e) /\ restorePaths[k] = SvgIconOf(e)

\* C12 witness: a run ended without error over a folder that held a
\* compatible workflow with an svg icon, an incompatible workflow with an
\* octicon and a workflow without sidecar; only the first is left, with its
\* icon, and the file only the deployment branch had there is gone
C12_Witness ==
    /\ SuccessfulRun
    /\ \E e \in Compatible :
         /\ e.folder = FolderCi /\ NamesSvgIcon(e) /\ tree[SvgIconOf(e)].present
         /\ \A p \in FilesOf(e) : tree[p].present
    /\ \E e \in WithProps \ Compatible :
         /\ e.folder = FolderCi /\ e.props.hasIcon /\ e.props.iconName[1] = "octicon"
         /\ ~tree[e.folder \o << "/" >> \o e.name].present
    /\ \E e \in YmlFiles \ WithProps :
         e.folder = FolderCi /\ ~tree[e.folder \o << "/" >> \o e.name].present
    /\ \E p \in DeploymentOnlyPaths : Under(p, FolderCi) /\ ~tree[p].present

=============================================================================
